---- MODULE Spec2Model ----
(***************************************************************************)
(* XMLDedupe: the Streamlit script Streamlit_XML_AI_Agent.py.              *)
(*                                                                         *)
(* One run of the script is modelled as a state machine whose positions    *)
(* are the script's top-level blocks: upload, parse, aggregate_per_name,   *)
(* group_by_deps, document building, summary, download, export.            *)
(*                                                                         *)
(* Representation.  A Python str is a sequence of one-character strings    *)
(* ("a,b" is <<"a", ",", "b">>), so that split, strip, join, isdigit, int  *)
(* and the lexicographic order are computed, not assumed.  Python's None   *)
(* is the value None below, which is no such sequence.  An XML element is  *)
(* a record [attrib, children]; attrib is a function whose DOMAIN is the   *)
(* set of attributes present, as ElementTree's attrib dict.                *)
(***************************************************************************)
EXTENDS Integers, Sequences, FiniteSets, TLC

(***************************************************************************)
(* Bounds of the model.                                                    *)
(***************************************************************************)
\* the number of <option> elements of an uploaded document
MaxOpts == 2

(***************************************************************************)
(* Python values.                                                          *)
(***************************************************************************)
None == <<"None">>

\* an empty dict
EmptyDict == [x \in {} |-> x]

\* code points of the characters the model's documents use
CharCode(c) ==
  CASE c = " " -> 32
    [] c = "," -> 44
    [] c = "0" -> 48
    [] c = "1" -> 49
    [] c = "2" -> 50
    [] c = "3" -> 51
    [] c = "4" -> 52
    [] c = "5" -> 53
    [] c = "6" -> 54
    [] c = "7" -> 55
    [] c = "8" -> 56
    [] c = "9" -> 57
    [] c = "a" -> 97
    [] c = "b" -> 98
    [] c = "c" -> 99
    [] c = "d" -> 100
    [] c = "e" -> 101
    [] c = "f" -> 102
    [] c = "l" -> 108
    [] c = "n" -> 110
    [] c = "r" -> 114
    [] c = "s" -> 115
    [] c = "x" -> 120
    [] c = "y" -> 121

DigitChars == <<"0", "1", "2", "3", "4", "5", "6", "7", "8", "9">>

Digits == {DigitChars[i] : i \in 1..10}

DigitValue(c) == CharCode(c) - CharCode("0")

\* str(n) of a natural number
RECURSIVE str(_)
str(n) ==
  IF n < 10 THEN <<DigitChars[n + 1]>>
  ELSE str(n \div 10) \o <<DigitChars[(n % 10) + 1]>>

\* str < str: lexicographic by code point
RECURSIVE StrLess(_, _)
StrLess(a, b) ==
  IF b = <<>> THEN FALSE
  ELSE IF a = <<>> THEN TRUE
  ELSE IF a[1] = b[1] THEN StrLess(Tail(a), Tail(b))
  ELSE CharCode(a[1]) < CharCode(b[1])

\* str.isdigit()
isdigit(v) == Len(v) > 0 /\ \A i \in 1..Len(v) : v[i] \in Digits

\* int(v) of an all-digit string
RECURSIVE int(_)
int(v) ==
  IF v = <<>> THEN 0
  ELSE 10 * int(SubSeq(v, 1, Len(v) - 1)) + DigitValue(v[Len(v)])

\* str.strip(): the only whitespace of the model's documents is the space
RECURSIVE lstrip(_)
lstrip(s) == IF s # <<>> /\ s[1] = " " THEN lstrip(Tail(s)) ELSE s

RECURSIVE rstrip(_)
rstrip(s) ==
  IF s # <<>> /\ s[Len(s)] = " " THEN rstrip(SubSeq(s, 1, Len(s) - 1)) ELSE s

strip(s) == lstrip(rstrip(s))

\* text.split(","): "" splits to [""], "a," to ["a", ""]
RECURSIVE split(_)
split(text) ==
  IF \E i \in 1..Len(text) : text[i] = ","
  THEN LET i == CHOOSE i \in 1..Len(text) :
                  text[i] = "," /\ \A j \in 1..(i - 1) : text[j] # ","
       IN  <<SubSeq(text, 1, i - 1)>> \o split(SubSeq(text, i + 1, Len(text)))
  ELSE <<text>>

\* sep.join(tokens)
RECURSIVE join(_, _)
join(sep, tokens) ==
  IF tokens = <<>> THEN <<>>
  ELSE IF Len(tokens) = 1 THEN tokens[1]
  ELSE tokens[1] \o <<sep>> \o join(sep, Tail(tokens))

NonEmpty(t) == t # <<>>

\* _split_field: split on ",", strip each token, drop the empty ones
_split_field(text) ==
  IF text = <<>> THEN <<>>
  ELSE LET parts == split(text)
           stripped == [i \in 1..Len(parts) |-> strip(parts[i])]
       IN  SelectSeq(stripped, NonEmpty)

\* Element.get(key, default)
Get(attrib, key, default) ==
  IF key \in DOMAIN attrib THEN attrib[key] ELSE default

Range(s) == {s[i] : i \in 1..Len(s)}

(***************************************************************************)
(* aggregate_per_name.  per_name is a dict: a sequence of entries in       *)
(* insertion order, one per key.  name_first_index is a dict from name to  *)
(* index.                                                                  *)
(***************************************************************************)
opt_names(opt) == _split_field(Get(opt.attrib, "name", <<>>))

opt_values(opt) == _split_field(Get(opt.attrib, "value", <<>>))

\* the (id, name) tuples of the option's <dependent> children, in document
\* order; d.get(key) is None for an absent attribute
opt_deps(opt) ==
  [j \in 1..Len(opt.children) |->
     <<Get(opt.children[j].attrib, "id", None),
       Get(opt.children[j].attrib, "name", None)>>]

\* a fallback to the first value instead of the last
paired_value_first(values, i) ==
  IF i <= Len(values) THEN values[i]
  ELSE IF values # <<>> THEN values[1]
  ELSE <<>>

\* the value paired with the name at position i (1-based here)
paired_value(values, i) ==
  IF i <= Len(values) THEN values[i]
  ELSE IF values # <<>> THEN values[Len(values)]
  ELSE <<>>

Keys(per_name) == {per_name[k].name : k \in 1..Len(per_name)}

\* the loop body with the dependents assigned instead of unioned
add_name_replaces_dependents(st, name, value, deps) ==
  LET created ==
        IF name \in Keys(st.per_name) THEN st.per_name
        ELSE Append(st.per_name,
                    [name |-> name, values |-> {}, dependents |-> {}])
      updated ==
        [k \in 1..Len(created) |->
           IF created[k].name = name
           THEN [created[k] EXCEPT !.values = @ \cup {value},
                                   !.dependents = Range(deps)]
           ELSE created[k]]
  IN  IF name \in DOMAIN st.name_first_index
      THEN [st EXCEPT !.per_name = updated]
      ELSE [per_name |-> updated,
            name_first_index |->
              (name :> st.appearance_counter) @@ st.name_first_index,
            appearance_counter |-> st.appearance_counter + 1]

\* the body of the loop over the option's names, for one name
add_name(st, name, value, deps) ==
  LET created ==
        IF name \in Keys(st.per_name) THEN st.per_name
        ELSE Append(st.per_name,
                    [name |-> name, values |-> {}, dependents |-> {}])
      updated ==
        [k \in 1..Len(created) |->
           IF created[k].name = name
           THEN [created[k] EXCEPT !.values = @ \cup {value},
                                   !.dependents = @ \cup Range(deps)]
           ELSE created[k]]
  IN  IF name \in DOMAIN st.name_first_index
      THEN [st EXCEPT !.per_name = updated]
      ELSE [per_name |-> updated,
            name_first_index |->
              (name :> st.appearance_counter) @@ st.name_first_index,
            appearance_counter |-> st.appearance_counter + 1]

RECURSIVE add_names(_, _, _, _, _)
add_names(st, names, values, deps, i) ==
  IF i > Len(names) THEN st
  ELSE add_names(add_name(st, names[i], paired_value(values, i), deps),
                 names, values, deps, i + 1)

RECURSIVE add_options(_, _, _)
add_options(st, root, k) ==
  IF k > Len(root) THEN st
  ELSE add_options(add_names(st, opt_names(root[k]), opt_values(root[k]),
                             opt_deps(root[k]), 1),
                   root, k + 1)

aggregate_per_name(root) ==
  add_options([per_name |-> <<>>, name_first_index |-> EmptyDict,
               appearance_counter |-> 0], root, 1)

(***************************************************************************)
(* group_by_deps.                                                          *)
(***************************************************************************)
\* the default of name_first_index.get(n, 10**9)
NoIndex == 1000000000

first_index(name_first_index, n) ==
  IF n \in DOMAIN name_first_index THEN name_first_index[n] ELSE NoIndex

\* Python's < on two distinct (id, name) tuples compares the first
\* components that differ; it raises TypeError when one of them is None.
dep_comparable(p, q) ==
  IF p[1] # q[1] THEN p[1] # None /\ q[1] # None
  ELSE p[2] # None /\ q[2] # None

dep_less(p, q) ==
  IF p[1] # q[1] THEN StrLess(p[1], q[1]) ELSE StrLess(p[2], q[2])

\* sorted(S) of a set of tuples returns only when the comparisons it makes
\* chain all elements into one order, so it raises as soon as two
\* elements of S cannot be compared.
deps_sortable(S) == \A p, q \in S : p = q \/ dep_comparable(p, q)

RECURSIVE sorted_deps(_)
sorted_deps(S) ==
  IF S = {} THEN <<>>
  ELSE LET m == CHOOSE m \in S : \A q \in S : q = m \/ dep_less(m, q)
       IN  <<m>> \o sorted_deps(S \ {m})

\* sorted(names) without the key: alphabetical
RECURSIVE sorted_names_alphabetical(_, _)
sorted_names_alphabetical(S, name_first_index) ==
  IF S = {} THEN <<>>
  ELSE LET m == CHOOSE m \in S : \A q \in S : q = m \/ StrLess(m, q)
       IN  <<m>> \o sorted_names_alphabetical(S \ {m}, name_first_index)

\* sorted(names, key=first index): the keys of distinct names differ
RECURSIVE sorted_names(_, _)
sorted_names(S, name_first_index) ==
  IF S = {} THEN <<>>
  ELSE LET m == CHOOSE m \in S :
                  \A q \in S : first_index(name_first_index, m)
                                 <= first_index(name_first_index, q)
       IN  <<m>> \o sorted_names(S \ {m}, name_first_index)

\* the sort key (int(v) if v.isdigit() else v): an int and a str key in one
\* list make sorted() raise TypeError
values_sortable(S) == ~ \E v, w \in S : isdigit(v) /\ ~isdigit(w)

key_less(v, w) ==
  IF isdigit(v) THEN int(v) < int(w) ELSE StrLess(v, w)

\* every order sorted(values, key=...) can return: the sort is stable, so
\* values with equal keys ("01" and "1") keep the set's iteration order,
\* which varies from run to run with the hash seed
sorted_values(S) ==
  LET n == Cardinality(S)
  IN  {s \in [1..n -> S] :
         /\ \A i, j \in 1..n : i # j => s[i] # s[j]
         /\ \A i, j \in 1..n : i < j => ~key_less(s[j], s[i])}

\* the first loop: groups_map, a dict keyed by the sorted dependents tuple
RECURSIVE build_groups_map(_, _, _)
build_groups_map(groups_map, per_name, k) ==
  IF k > Len(per_name) THEN groups_map
  ELSE
    LET info == per_name[k]
        deps_key == sorted_deps(info.dependents)
        created ==
          IF \E g \in 1..Len(groups_map) : groups_map[g].key = deps_key
          THEN groups_map
          ELSE Append(groups_map,
                      [key |-> deps_key, names |-> {}, values |-> {},
                       dependents |-> deps_key])
        updated ==
          [g \in 1..Len(created) |->
             IF created[g].key = deps_key
             THEN [created[g] EXCEPT !.names = @ \cup {info.name},
                                     !.values = @ \cup info.values]
             ELSE created[g]]
    IN  build_groups_map(updated, per_name, k + 1)

SetMin(S) == CHOOSE m \in S : \A q \in S : m <= q

\* the second loop: every list of groups it can build
RECURSIVE group_lists(_, _, _)
group_lists(groups_map, name_first_index, g) ==
  IF g > Len(groups_map) THEN {<<>>}
  ELSE
    LET data == groups_map[g]
        order_key ==
          SetMin({first_index(name_first_index, n) : n \in data.names})
        rest == group_lists(groups_map, name_first_index, g + 1)
    IN  {<<[names |-> sorted_names(data.names, name_first_index),
            values |-> vs,
            dependents |-> data.dependents,
            order_key |-> order_key]>> \o r :
           vs \in sorted_values(data.values), r \in rest}

\* groups.sort(key=order_key): a stable insertion sort
RECURSIVE insert_group(_, _)
insert_group(sorted, g) ==
  IF sorted = <<>> THEN <<g>>
  ELSE IF sorted[Len(sorted)].order_key <= g.order_key THEN Append(sorted, g)
  ELSE Append(insert_group(SubSeq(sorted, 1, Len(sorted) - 1), g),
              sorted[Len(sorted)])

RECURSIVE sort_groups(_, _)
sort_groups(groups, k) ==
  IF k = 0 THEN <<>>
  ELSE insert_group(sort_groups(groups, k - 1), groups[k])

\* where group_by_deps raises, if it does
group_by_deps_raises(per_name) ==
  IF \E k \in 1..Len(per_name) : ~deps_sortable(per_name[k].dependents)
  THEN "sorted(dependents)"
  ELSE LET groups_map == build_groups_map(<<>>, per_name, 1)
       IN  IF \E g \in 1..Len(groups_map) :
                  ~values_sortable(groups_map[g].values)
           THEN "sorted(values)"
           ELSE "no"

\* every list of groups group_by_deps can return
group_by_deps(per_name, name_first_index) ==
  LET groups_map == build_groups_map(<<>>, per_name, 1)
  IN  {sort_groups(gs, Len(gs)) :
         gs \in group_lists(groups_map, name_first_index, 1)}

(***************************************************************************)
(* generate_clean_xml_from_root, from the groups on: the new tree and its  *)
(* serialization.  The cleaned text is kept as the tree it parses back to. *)
(***************************************************************************)
\* id and name exchanged
dependent_element_swapped(dep) ==
  [attrib |-> [type |-> <<"0">>, id |-> dep[2], name |-> dep[1],
               reset |-> <<"f", "a", "l", "s", "e">>,
               retainonedit |-> <<"f", "a", "l", "s", "e">>],
   children |-> <<>>]

dependent_element(dep) ==
  [attrib |-> [type |-> <<"0">>, id |-> dep[1], name |-> dep[2],
               reset |-> <<"f", "a", "l", "s", "e">>,
               retainonedit |-> <<"f", "a", "l", "s", "e">>],
   children |-> <<>>]

option_element(g) ==
  [attrib |-> [name |-> join(",", g.names), value |-> join(",", g.values)],
   children |-> [j \in 1..Len(g.dependents) |->
                   dependent_element(g.dependents[j])]]

build_tree(groups) == [k \in 1..Len(groups) |-> option_element(groups[k])]

\* ET.tostring raises TypeError ("cannot serialize None") for an attribute
\* whose value is None
tostring_raises(tree) ==
  \E k \in 1..Len(tree) : \E j \in 1..Len(tree[k].children) :
    \E a \in DOMAIN tree[k].children[j].attrib :
      tree[k].children[j].attrib[a] = None

(***************************************************************************)
(* The export loop over the re-parsed cleaned document.                    *)
(***************************************************************************)
\* ";".join of the f"{dep_id}:{dep_name}" of the option's dependents
dependents_str(opt) ==
  join(";", [j \in 1..Len(opt.children) |->
               Get(opt.children[j].attrib, "id", <<>>) \o <<":">>
                 \o Get(opt.children[j].attrib, "name", <<>>)])

\* the value of the row of the name at position idx (1-based here)
row_value(values, idx) ==
  IF idx <= Len(values) THEN strip(values[idx])
  ELSE IF values # <<>> THEN strip(values[Len(values)])
  ELSE <<>>

\* a serial number that counts from 0
serial_number_from_zero(mapping_rows) == Len(mapping_rows)

\* len(mapping_rows) + 1
serial_number(mapping_rows) == Len(mapping_rows) + 1

RECURSIVE export_names(_, _, _, _, _, _)
export_names(mapping_rows, group_number, names, values, deps, idx) ==
  IF idx > Len(names) THEN mapping_rows
  ELSE export_names(
         Append(mapping_rows,
                [sr_no |-> serial_number(mapping_rows),
                 group_id |-> <<"G">> \o str(group_number),
                 option_name |-> strip(names[idx]),
                 option_value |-> row_value(values, idx),
                 dependents |-> deps]),
         group_number, names, values, deps, idx + 1)

RECURSIVE export_options(_, _, _)
export_options(mapping_rows, root, group_number) ==
  IF group_number > Len(root) THEN mapping_rows
  ELSE export_options(
         export_names(mapping_rows, group_number,
                      split(Get(root[group_number].attrib, "name", <<>>)),
                      split(Get(root[group_number].attrib, "value", <<>>)),
                      dependents_str(root[group_number]), 1),
         root, group_number + 1)

export_rows(root) == export_options(<<>>, root, 1)

(***************************************************************************)
(* The uploaded files.                                                     *)
(***************************************************************************)
Unset == <<>>

Some(v) == <<v>>

\* an attrib dict holding the attributes that are present
Attrib2(k1, v1, k2, v2) ==
  (IF v1 = None THEN EmptyDict ELSE k1 :> v1)
    @@ (IF v2 = None THEN EmptyDict ELSE k2 :> v2)

DependentOf(dep_id, dep_name) ==
  [attrib |-> Attrib2("id", dep_id, "name", dep_name), children |-> <<>>]

OptionOf(name, value, dependents) ==
  [attrib |-> Attrib2("name", name, "value", value), children |-> dependents]

\* name attributes: absent, "a", "b, ,a", "a,b,c"
NameAttrs ==
  {None, <<"a">>, <<"b", ",", " ", ",", "a">>, <<"a", ",", "b", ",", "c">>}

\* value attributes: absent, "x", "2,1"
ValueAttrs == {None, <<"x">>, <<"2", ",", "1">>}

d1 == <<"d", "1">>

d2 == <<"d", "2">>

n1 == <<"n", "1">>

\* dependent children: none; (d2,n1), (d1,n1), (d2,n1) again; one
\* <dependent id="d1"/> without a name
DependentLists ==
  {<<>>,
   <<DependentOf(d2, n1), DependentOf(d1, n1), DependentOf(d2, n1)>>,
   <<DependentOf(d1, None)>>}

Options ==
  {OptionOf(n, v, ds) : n \in NameAttrs, v \in ValueAttrs,
                        ds \in DependentLists}

\* the <option> children of the root of a well-formed document
Documents == UNION {[1..k -> Options] : k \in 0..MaxOpts}

NoFile == [kind |-> "none", root |-> <<>>]

Files ==
  {[kind |-> "malformed", root |-> <<>>]}
    \cup {[kind |-> "xml", root |-> doc] : doc \in Documents}

(***************************************************************************)
(* The script.                                                             *)
(***************************************************************************)
VARIABLES
  pc,                \* the block of the script that runs next
  uploaded,          \* the uploaded file
  original_root,     \* Unset, or Some(the parsed root's options)
  per_name,          \* aggregate_per_name's first result
  name_first_index,  \* aggregate_per_name's second result
  groups,            \* group_by_deps's result
  cleaned_xml,       \* Unset, or Some(the cleaned document)
  error,             \* what st.error showed: "" or the exception
  summary,           \* Unset, or Some(the counts of the summary table)
  download,          \* Unset, or Some(the document the button offers)
  mapping_rows,      \* Unset, or Some(the rows of the export)
  saved_xml          \* Unset, or Some(the cleaned document uploaded again)

vars ==
  <<pc, uploaded, original_root, per_name, name_first_index, groups,
    cleaned_xml, error, summary, download, mapping_rows, saved_xml>>

\* cleaned_xml initialised to an empty document instead of None
initial_cleaned_xml_empty_document == Some(<<>>)

\* cleaned_xml = None
initial_cleaned_xml == Unset

\* the state a run of the script starts from
Fresh ==
  /\ original_root' = Unset
  /\ per_name' = <<>>
  /\ name_first_index' = EmptyDict
  /\ groups' = <<>>
  /\ cleaned_xml' = initial_cleaned_xml
  /\ error' = ""
  /\ summary' = Unset
  /\ download' = Unset
  /\ mapping_rows' = Unset

Init ==
  /\ pc = "upload"
  /\ uploaded = NoFile
  /\ original_root = Unset
  /\ per_name = <<>>
  /\ name_first_index = EmptyDict
  /\ groups = <<>>
  /\ cleaned_xml = initial_cleaned_xml
  /\ error = ""
  /\ summary = Unset
  /\ download = Unset
  /\ mapping_rows = Unset
  /\ saved_xml = Unset

\* the user uploads a file
Upload ==
  /\ pc = "upload"
  /\ \E f \in Files : uploaded' = f
  /\ pc' = "parse"
  /\ UNCHANGED <<original_root, per_name, name_first_index, groups,
                 cleaned_xml, error, summary, download, mapping_rows,
                 saved_xml>>

\* the script runs with no file: "if uploaded:" is false
NoUpload ==
  /\ pc = "upload"
  /\ pc' = "summary"
  /\ UNCHANGED <<uploaded, original_root, per_name, name_first_index, groups,
                 cleaned_xml, error, summary, download, mapping_rows,
                 saved_xml>>

\* ET.fromstring(xml_text); a ParseError goes to the except branch
Parse ==
  /\ pc = "parse"
  /\ IF uploaded.kind = "xml"
     THEN /\ original_root' = Some(uploaded.root)
          /\ pc' = "aggregate"
          /\ UNCHANGED error
     ELSE /\ error' = "ParseError"
          /\ pc' = "summary"
          /\ UNCHANGED original_root
  /\ UNCHANGED <<uploaded, per_name, name_first_index, groups, cleaned_xml,
                 summary, download, mapping_rows, saved_xml>>

\* per_name, name_first_index = aggregate_per_name(root)
Aggregate ==
  /\ pc = "aggregate"
  /\ LET st == aggregate_per_name(original_root[1])
     IN  /\ per_name' = st.per_name
         /\ name_first_index' = st.name_first_index
  /\ pc' = "group"
  /\ UNCHANGED <<uploaded, original_root, groups, cleaned_xml, error,
                 summary, download, mapping_rows, saved_xml>>

\* groups = group_by_deps(per_name, name_first_index); a TypeError goes to
\* the except branch
Group ==
  /\ pc = "group"
  /\ LET raises == group_by_deps_raises(per_name)
     IN  IF raises = "no"
         THEN /\ groups' \in group_by_deps(per_name, name_first_index)
              /\ pc' = "build"
              /\ UNCHANGED error
         ELSE /\ error' = raises
              /\ pc' = "summary"
              /\ UNCHANGED groups
  /\ UNCHANGED <<uploaded, original_root, per_name, name_first_index,
                 cleaned_xml, summary, download, mapping_rows, saved_xml>>

\* the new tree and _prettify_xml; a TypeError goes to the except branch
Build ==
  /\ pc = "build"
  /\ LET tree == build_tree(groups)
     IN  IF tostring_raises(tree)
         THEN /\ error' = "tostring"
              /\ UNCHANGED cleaned_xml
         ELSE /\ cleaned_xml' = Some(tree)
              /\ UNCHANGED error
  /\ pc' = "summary"
  /\ UNCHANGED <<uploaded, original_root, per_name, name_first_index, groups,
                 summary, download, mapping_rows, saved_xml>>

\* the summary table; the original's "<dependent" count is a count over the
\* raw text and is not kept.  cleaned_xml.count("<dependent") also counts
\* the root tag <dependents
RECURSIVE dependent_count(_)
dependent_count(cleaned) ==
  IF cleaned = <<>> THEN 0
  ELSE Len(cleaned[1].children) + dependent_count(Tail(cleaned))

summary_counts(root, cleaned) ==
  [original_options |-> Len(root),
   cleaned_options |-> Len(cleaned),
   cleaned_dependents |-> 1 + dependent_count(cleaned)]

Summary ==
  /\ pc = "summary"
  /\ IF uploaded.kind # "none" /\ cleaned_xml # Unset
     THEN summary' = Some(summary_counts(original_root[1], cleaned_xml[1]))
     ELSE UNCHANGED summary
  /\ pc' = "download"
  /\ UNCHANGED <<uploaded, original_root, per_name, name_first_index, groups,
                 cleaned_xml, error, download, mapping_rows, saved_xml>>

\* the download button of the cleaned document
Download ==
  /\ pc = "download"
  /\ IF cleaned_xml # Unset
     THEN download' = cleaned_xml
     ELSE UNCHANGED download
  /\ pc' = "export"
  /\ UNCHANGED <<uploaded, original_root, per_name, name_first_index, groups,
                 cleaned_xml, error, summary, mapping_rows, saved_xml>>

\* the export of the mapping rows
Export ==
  /\ pc = "export"
  /\ IF cleaned_xml # Unset
     THEN mapping_rows' = Some(export_rows(cleaned_xml[1]))
     ELSE UNCHANGED mapping_rows
  /\ pc' = "done"
  /\ UNCHANGED <<uploaded, original_root, per_name, name_first_index, groups,
                 cleaned_xml, error, summary, download, saved_xml>>

\* the user uploads the downloaded cleaned document as a fresh input
UploadCleaned ==
  /\ pc = "done"
  /\ download # Unset
  /\ saved_xml = Unset
  /\ saved_xml' = download
  /\ uploaded' = [kind |-> "xml", root |-> download[1]]
  /\ Fresh
  /\ pc' = "parse"

Next ==
  \/ Upload
  \/ NoUpload
  \/ Parse
  \/ Aggregate
  \/ Group
  \/ Build
  \/ Summary
  \/ Download
  \/ Export
  \/ UploadCleaned

Spec == Init /\ [][Next]_vars

(***************************************************************************)
(* What the properties below speak of, read off the input document itself  *)
(* and not off the pipeline's intermediate results.                        *)
(***************************************************************************)
\* the <option> elements the current run parsed
Root == original_root[1]

\* the distinct names of the input
InputNames == UNION {Range(opt_names(Root[k])) : k \in 1..Len(Root)}

\* the options whose name list contains n
OptionsWith(n) == {k \in 1..Len(Root) : n \in Range(opt_names(Root[k]))}

\* the aggregated dependent set of n
InputDeps(n) == UNION {Range(opt_deps(Root[k])) : k \in OptionsWith(n)}

\* all names in document order: option by option, then by position
RECURSIVE NamesInOrder(_)
NamesInOrder(k) ==
  IF k = 0 THEN <<>> ELSE NamesInOrder(k - 1) \o opt_names(Root[k])

\* where n appears first in document order
FirstPos(n) ==
  LET all == NamesInOrder(Len(Root))
  IN  CHOOSE i \in 1..Len(all) :
        all[i] = n /\ \A j \in 1..(i - 1) : all[j] # n

\* the groups that hold n
GroupsOf(n) == {g \in 1..Len(groups) : n \in Range(groups[g].names)}

\* the (id, name) pairs of an element's <dependent> children
ChildPairs(elem) == Range(opt_deps(elem))

\* the number of "," in a string
RECURSIVE CommaCount(_)
CommaCount(text) ==
  IF text = <<>> THEN 0
  ELSE (IF text[1] = "," THEN 1 ELSE 0) + CommaCount(Tail(text))

\* the sum over the elements of a document of the number of
\* comma-separated names of the name attribute
RECURSIVE NameCount(_)
NameCount(doc) ==
  IF doc = <<>> THEN 0
  ELSE CommaCount(Get(doc[1].attrib, "name", <<>>)) + 1 + NameCount(Tail(doc))

\* group_by_deps has just returned
Grouped == pc = "build"

\* this run produced its cleaned document
Cleaned ==
  pc \in {"summary", "download", "export", "done"} /\ cleaned_xml # Unset

\* the export has run
Exported == pc = "done" /\ mapping_rows # Unset

(***************************************************************************)
(* C1.  Partition property: after aggregate_per_name and group_by_deps,    *)
(* every distinct name of any option's name list is in exactly one group,  *)
(* and two names are in the same group iff their aggregated dependent      *)
(* sets, taken over all options that contain the name, are equal.          *)
(***************************************************************************)
C1_Partition ==
  Grouped =>
    /\ \A n \in InputNames : Cardinality(GroupsOf(n)) = 1
    /\ \A n, m \in InputNames :
         (GroupsOf(n) = GroupsOf(m)) <=> (InputDeps(n) = InputDeps(m))

\* two names share a group, a third is in another group, and one of the
\* names was aggregated over two options
C1_Witness ==
  /\ Grouped
  /\ \E n, m, q \in InputNames :
       /\ n # m
       /\ GroupsOf(n) = GroupsOf(m)
       /\ GroupsOf(n) # GroupsOf(q)
       /\ Cardinality(OptionsWith(n)) = 2

(***************************************************************************)
(* C2.  Idempotence on re-grouping: the pipeline run on the cleaned        *)
(* document it produced yields a document with the same set of groups:     *)
(* the same name-sets, value-sets and dependent-sets.                      *)
(***************************************************************************)
\* the groups of a cleaned document, as the pipeline reads them
DocGroups(doc) ==
  {[names |-> Range(opt_names(doc[k])),
    values |-> Range(opt_values(doc[k])),
    dependents |-> ChildPairs(doc[k])] : k \in 1..Len(doc)}

C2_Idempotent ==
  (saved_xml # Unset /\ Cleaned) =>
    DocGroups(cleaned_xml[1]) = DocGroups(saved_xml[1])

(***************************************************************************)
(* C3.  Dependent fidelity: the (id, name) dependents emitted as children  *)
(* of a group's element are the union of the dependents of all input       *)
(* options whose name list contains a member name of the group.            *)
(***************************************************************************)
C3_DependentFidelity ==
  Cleaned =>
    \A k \in 1..Len(cleaned_xml[1]) :
      LET elem == cleaned_xml[1][k]
          members == Range(opt_names(elem))
      IN  ChildPairs(elem) =
            UNION {Range(opt_deps(Root[j])) :
                     j \in {i \in 1..Len(Root) :
                              Range(opt_names(Root[i])) \cap members # {}}}

\* a group's element has two dependents, and one of the options that
\* contributed a member name has no dependent at all
C3_Witness ==
  /\ Cleaned
  /\ \E k \in 1..Len(cleaned_xml[1]) :
       /\ Cardinality(ChildPairs(cleaned_xml[1][k])) = 2
       /\ \E j \in 1..Len(Root) :
            /\ Range(opt_names(Root[j]))
                 \cap Range(opt_names(cleaned_xml[1][k])) # {}
            /\ Root[j].children = <<>>

(***************************************************************************)
(* C4.  Stable ordering: the groups are in ascending order of order_key,   *)
(* the minimum first-appearance index of the member names; the first       *)
(* group of the cleaned document holds the name that appears earliest in   *)
(* the input; the names of a group are in first-appearance order.          *)
(***************************************************************************)
MinFirstPos(g) == SetMin({FirstPos(n) : n \in Range(groups[g].names)})

C4_StableOrdering ==
  /\ Grouped =>
       /\ \A g, h \in 1..Len(groups) :
            g < h => /\ groups[g].order_key < groups[h].order_key
                     /\ MinFirstPos(g) < MinFirstPos(h)
       /\ \A g \in 1..Len(groups) :
            \A i, j \in 1..Len(groups[g].names) :
              i < j => FirstPos(groups[g].names[i])
                         < FirstPos(groups[g].names[j])
       /\ InputNames # {} =>
            NamesInOrder(Len(Root))[1] \in Range(groups[1].names)
  /\ (Cleaned /\ InputNames # {}) =>
       NamesInOrder(Len(Root))[1] \in Range(opt_names(cleaned_xml[1][1]))

\* two groups, and a group whose first-appearance order of names is not
\* their alphabetical order
C4_Witness ==
  /\ Grouped
  /\ Len(groups) = 2
  /\ \E g \in 1..Len(groups) :
       /\ Len(groups[g].names) >= 2
       /\ StrLess(groups[g].names[2], groups[g].names[1])

(***************************************************************************)
(* C5.  Fallback value policy: for an option with names n_0..n_k and       *)
(* values v_0..v_m the value added to the aggregate of n_i is v_i if       *)
(* i <= m, else v_m if there is a value, else the empty string, and no     *)
(* other value is added to any aggregate.                                  *)
(***************************************************************************)
\* i counts from 0, as in the claim
FallbackValue(values, i) ==
  LET m == Len(values) - 1
  IN  CASE i <= m -> values[i + 1]
        [] i > m /\ m >= 0 -> values[m + 1]
        [] OTHER -> <<>>

ValuesGiven(n) ==
  UNION {{FallbackValue(opt_values(Root[k]), i - 1) :
            i \in {i \in 1..Len(opt_names(Root[k])) :
                     opt_names(Root[k])[i] = n}} :
           k \in 1..Len(Root)}

C5_FallbackValue ==
  pc = "group" =>
    /\ Keys(per_name) = InputNames
    /\ \A e \in Range(per_name) : e.values = ValuesGiven(e.name)

\* an option with three names and one value, which all three names got
C5_Witness ==
  /\ pc = "group"
  /\ \E k \in 1..Len(Root) :
       /\ Len(opt_names(Root[k])) = 3
       /\ Len(opt_values(Root[k])) = 1
       /\ \A e \in Range(per_name) : opt_values(Root[k])[1] \in e.values

(***************************************************************************)
(* C6.  Missing or empty attributes are never an error: for a well-formed  *)
(* document in which an option lacks name or value, or a dependent lacks   *)
(* id or name, the pipeline completes and produces the cleaned document    *)
(* and the mapping rows.                                                   *)
(***************************************************************************)
LacksAttribute(doc) ==
  \E k \in 1..Len(doc) :
    \/ "name" \notin DOMAIN doc[k].attrib
    \/ "value" \notin DOMAIN doc[k].attrib
    \/ \E j \in 1..Len(doc[k].children) :
         \/ "id" \notin DOMAIN doc[k].children[j].attrib
         \/ "name" \notin DOMAIN doc[k].children[j].attrib

C6_MissingNeverError ==
  (pc = "done" /\ uploaded.kind = "xml" /\ LacksAttribute(uploaded.root)) =>
    /\ error = ""
    /\ cleaned_xml # Unset
    /\ mapping_rows # Unset

(***************************************************************************)
(* C7.  Row-count law: the number of mapping rows is the sum, over the     *)
(* option elements of the cleaned document, of the number of               *)
(* comma-separated names of the name attribute, and the k-th row carries   *)
(* serial number k.                                                        *)
(***************************************************************************)
C7_RowCount ==
  Exported =>
    /\ Len(mapping_rows[1]) = NameCount(cleaned_xml[1])
    /\ \A k \in 1..Len(mapping_rows[1]) : mapping_rows[1][k].sr_no = k

\* rows of two groups, one of them with several names
C7_Witness ==
  /\ Exported
  /\ Len(cleaned_xml[1]) = 2
  /\ Len(mapping_rows[1]) >= 3

(***************************************************************************)
(* C8.  Malformed document: when parsing fails, the cleaned document       *)
(* stays unset and no summary, no download and no mapping rows are         *)
(* produced.                                                               *)
(***************************************************************************)
C8_MalformedNoOutput ==
  (uploaded.kind = "malformed" /\ pc \notin {"upload", "parse"}) =>
    /\ error = "ParseError"
    /\ cleaned_xml = Unset
    /\ summary = Unset
    /\ download = Unset
    /\ mapping_rows = Unset

\* the script ran to its end on a malformed file
C8_Witness ==
  /\ uploaded.kind = "malformed"
  /\ pc = "done"
  /\ error = "ParseError"

(***************************************************************************)
(* C9.  Natural-key value ordering is total: group_by_deps renders every   *)
(* group's value set as a sequence, all-digit values by integer value and  *)
(* the others lexicographically, and does so for every value set, also     *)
(* one that mixes all-digit values with other values or with the empty     *)
(* fallback value.                                                         *)
(***************************************************************************)
C9_ValueOrderTotal ==
  /\ error # "sorted(values)"
  /\ Grouped =>
       \A g \in 1..Len(groups) :
         \A i, j \in 1..Len(groups[g].values) :
           i < j => key_less(groups[g].values[i], groups[g].values[j])

(***************************************************************************)
(* C10.  Pairing fidelity of the export: the value of every mapping row    *)
(* is a member of the value set aggregate_per_name accumulated for the     *)
(* row's name.                                                             *)
(***************************************************************************)
C10_PairingFidelity ==
  Exported =>
    \A r \in Range(mapping_rows[1]) :
      \E e \in Range(per_name) :
        e.name = r.option_name /\ r.option_value \in e.values

====
